---- MODULE Spec2Model ----
(***************************************************************************)
(* HL-TWAP-API: the ingestion pass (utils/scheduler.py), the S3 fetcher    *)
(* (services/s3_fetcher.py), the data processor                            *)
(* (services/data_processor.py), the two tables of models/trade.py and the *)
(* read endpoints of api/app.py.                                           *)
(*                                                                         *)
(* Time is a discrete wall clock.  An optional value (a missing JSON       *)
(* field, a pandas NaN/NaT, a Python None) is the empty tuple; a present   *)
(* value x is <<x>>.                                                       *)
(***************************************************************************)
EXTENDS Integers, Sequences, FiniteSets, TLC

\* ------------------------------------------------------------- bounds
MaxTime == 2        \* the wall clock runs over 1..MaxTime
MaxRuns == 2        \* invocations of run_daily_ingestion
NumBlocks == 3      \* blocks of the bucket a backlog specification starts from
MaxUploads == 1     \* blocks the node uploads while the passes run
BatchBlocks == 2    \* blocks of the bucket a batch specification starts from
ConcBlocks == 1     \* blocks of the bucket the concurrent passes start from
max_blocks == 2     \* fetch_new_data(max_blocks=100), scaled down
MaxLen == 2         \* records of a batch handed to the normalizer
MaxFiles == 2       \* files of a batch handed to process_and_store
MaxFaults == 1      \* S3 requests that fail during one call of the fetcher
MaxBatch == 3       \* records of a batch handed to the deduplication
MaxHistory == 2     \* passes that ran before the passes of a resumed deployment

\* ------------------------------------------------------------- values
None == <<>>

\* datetime(2023, 1, 1), the floor of fetch_new_data; the clock starts after it
EpochFloor == 0

RECURSIVE Flatten(_)
Flatten(ss) == IF ss = <<>> THEN <<>> ELSE Head(ss) \o Flatten(Tail(ss))

Range(s) == {s[i] : i \in DOMAIN s}

\* the characters of a decimal number, as code points
RECURSIVE digits(_)
digits(n) == IF n < 10 THEN <<48 + n>> ELSE digits(n \div 10) \o <<48 + (n % 10)>>

\* f"{parts[0]}/{parts[1]}/" without the part every prefix shares: the block
\* number and the slash that ends it
block_prefix(block) == digits(block) \o <<47>>

\* a < b on Python strings
RECURSIVE str_lt(_, _)
str_lt(a, b) ==
    IF b = <<>> THEN FALSE
    ELSE IF a = <<>> THEN TRUE
    ELSE IF Head(a) # Head(b) THEN Head(a) < Head(b)
    ELSE str_lt(Tail(a), Tail(b))

\* the order of two blocks' prefixes
prefix_le(x, y) == x = y \/ str_lt(block_prefix(x), block_prefix(y))

\* the blocks ordered as numbers
RECURSIVE sorted_Numeric(_)
sorted_Numeric(S) ==
    IF S = {} THEN <<>>
    ELSE LET m == CHOOSE x \in S : \A y \in S : x <= y
         IN  <<m>> \o sorted_Numeric(S \ {m})

\* sorted(list(blocks)): ascending by prefix string
RECURSIVE sorted(_)
sorted(S) ==
    IF S = {} THEN <<>>
    ELSE LET m == CHOOSE x \in S : \A y \in S : prefix_le(x, y)
         IN  <<m>> \o sorted(S \ {m})

\* ------------------------------------------------------------- raw fills
RawColumns == {"user", "coin", "px", "sz", "time", "oid", "side", "fee"}

Fill(user, coin, px, sz, time, oid, side, fee) ==
    [user |-> user, coin |-> coin, px |-> px, sz |-> sz,
     time |-> time, oid |-> oid, side |-> side, fee |-> fee]

\* two fills of different orders with the same (user, time, coin, px, sz)
FillA == Fill(<<"w1">>, <<"BTC">>, <<"10">>, <<"1">>, <<1000>>, <<7>>, <<"B">>, <<"1">>)
FillADup == Fill(<<"w1">>, <<"BTC">>, <<"10">>, <<"1">>, <<1000>>, <<8>>, <<"A">>, <<"1">>)
FillB == Fill(<<"w2">>, <<"ETH">>, <<"20">>, <<"2">>, <<2000>>, <<9>>, <<"A">>, <<"x">>)
\* px is not a number
FillBadPx == Fill(<<"w2">>, <<"ETH">>, <<"abc">>, <<"2">>, <<3000>>, <<9>>, <<"B">>, <<"1">>)
\* no user / no coin
FillNoUser == Fill(None, <<"BTC">>, <<"10">>, <<"1">>, <<1000>>, <<7>>, <<"B">>, <<"1">>)
FillNoCoin == Fill(<<"w1">>, None, <<"10">>, <<"1">>, <<1000>>, <<7>>, <<"B">>, <<"1">>)

\* one field of FillA missing or changed
FillNoTime == Fill(<<"w1">>, <<"BTC">>, <<"10">>, <<"1">>, None, <<7>>, <<"B">>, <<"1">>)
FillNoPx == Fill(<<"w1">>, <<"BTC">>, None, <<"1">>, <<1000>>, <<7>>, <<"B">>, <<"1">>)
FillBadSz == Fill(<<"w1">>, <<"BTC">>, <<"10">>, <<"abc">>, <<1000>>, <<7>>, <<"B">>, <<"1">>)
FillNoOid == Fill(<<"w1">>, <<"BTC">>, <<"10">>, <<"1">>, <<1000>>, None, <<"B">>, <<"1">>)
FillNoSide == Fill(<<"w1">>, <<"BTC">>, <<"10">>, <<"1">>, <<1000>>, <<7>>, None, <<"1">>)
FillOtherSide == Fill(<<"w1">>, <<"BTC">>, <<"10">>, <<"1">>, <<1000>>, <<7>>, <<"X">>, <<"1">>)
FillNoFee == Fill(<<"w1">>, <<"BTC">>, <<"10">>, <<"1">>, <<1000>>, <<7>>, <<"B">>, None)

\* the records the calls of the normalizer draw from
Fills ==
    {FillA, FillADup, FillB, FillBadPx, FillNoUser, FillNoCoin, FillNoTime,
     FillNoPx, FillBadSz, FillNoOid, FillNoSide, FillOtherSide, FillNoFee}

JsonLine(r) == [kind |-> "json", rec |-> r]
BadLine == [kind |-> "bad", rec |-> Fill(None, None, None, None, None, None, None, None)]
BlankLine == [kind |-> "blank", rec |-> Fill(None, None, None, None, None, None, None, None)]

\* file contents: two fills; a fill that repeats FillA; a trailing malformed
\* line; rows that all lack a required field; a fill in a batch with no user
\* column; a fill whose px is not a number
FileAB == <<JsonLine(FillA), JsonLine(FillB)>>
FileADup == <<JsonLine(FillADup)>>
FileBad == <<JsonLine(FillB), BadLine>>
FileDropped == <<JsonLine(FillNoUser), BlankLine, JsonLine(FillNoCoin)>>
FileNoUser == <<JsonLine(FillNoUser)>>
FileBadPx == <<JsonLine(FillBadPx)>>

Contents == {FileAB, FileADup, FileBad, FileDropped, FileNoUser, FileBadPx}

\* the contents the node's uploads draw from
UploadContents == {FileAB, FileBad}

\* ------------------------------------------------------------- data frames
\* A DataFrame is its set of columns and its rows in order; a row holds None
\* (NaN) in a column it has no value for.
EmptyFrame == [cols |-> {}, rows |-> <<>>]

\* DataFrame.empty
IsEmpty(df) == df.cols = {} \/ df.rows = <<>>

\* pd.DataFrame(data): the columns are the keys any record carries
DataFrame(data) ==
    [cols |-> {c \in RawColumns : \E i \in DOMAIN data : data[i][c] # None},
     rows |-> data]

\* malformed lines skipped one by one instead of failing the file
parse_fill_data_SkipBad(raw_data) ==
    LET lines == SelectSeq(raw_data, LAMBDA l : l.kind = "json")
        data  == [i \in DOMAIN lines |-> lines[i].rec]
    IN  IF data = <<>>
        THEN [raised |-> FALSE, df |-> EmptyFrame]
        ELSE [raised |-> FALSE, df |-> DataFrame(data)]

\* DataProcessor.parse_fill_data: blank lines skipped, one bad line fails the file
parse_fill_data(raw_data) ==
    LET lines == SelectSeq(raw_data, LAMBDA l : l.kind # "blank")
        data  == [i \in DOMAIN lines |-> lines[i].rec]
    IN  IF \E i \in DOMAIN lines : lines[i].kind = "bad"
        THEN [raised |-> TRUE, df |-> EmptyFrame]
        ELSE IF data = <<>>
             THEN [raised |-> FALSE, df |-> EmptyFrame]
             ELSE [raised |-> FALSE, df |-> DataFrame(data)]

\* pd.concat(all_dataframes, ignore_index=True)
RECURSIVE concat(_)
concat(dfs) ==
    IF dfs = <<>> THEN EmptyFrame
    ELSE LET rest == concat(Tail(dfs))
         IN  [cols |-> Head(dfs).cols \cup rest.cols,
              rows |-> Head(dfs).rows \o rest.rows]

\* pd.to_numeric(errors="coerce") on the strings the fills carry
to_numeric(v) ==
    IF v = None THEN None
    ELSE CASE v[1] = "1" -> <<1>>
           [] v[1] = "2" -> <<2>>
           [] v[1] = "10" -> <<10>>
           [] v[1] = "20" -> <<20>>
           [] OTHER -> None

\* df["side"].map({"B": "buy", "A": "sell"}).fillna("unknown")
map_side(v) ==
    IF v = <<"B">> THEN <<"buy">>
    ELSE IF v = <<"A">> THEN <<"sell">>
    ELSE <<"unknown">>

\* astype(str): NaN becomes the string "nan"; a column holding a NaN is a float
\* column, whose numbers print with a fraction
astype_str(v, float_column) ==
    IF v = None THEN <<"nan">>
    ELSE IF float_column THEN <<ToString(v[1]) \o ".0">>
    ELSE <<ToString(v[1])>>

column_mapping(c) ==
    CASE c = "user" -> "wallet_address"
      [] c = "coin" -> "asset"
      [] c = "px" -> "price"
      [] c = "sz" -> "quantity"
      [] c = "time" -> "timestamp"
      [] c = "oid" -> "twap_id"
      [] OTHER -> c

required_fields == {"wallet_address", "timestamp", "asset"}

final_columns ==
    {"twap_id", "wallet_address", "timestamp", "asset", "quantity", "price",
     "side", "fee", "exchange"}

\* one row after the column transforms of normalize_fill_data; cols are the
\* renamed columns of the frame, before fee and exchange are added
normalize_row(r, cols, oid_float) ==
    [twap_id        |-> IF "twap_id" \in cols THEN astype_str(r.oid, oid_float) ELSE None,
     wallet_address |-> r.user,
     timestamp      |-> r.time,
     asset          |-> r.coin,
     quantity       |-> to_numeric(r.sz),
     price          |-> to_numeric(r.px),
     side           |-> IF "side" \in cols THEN map_side(r.side) ELSE None,
     fee            |-> IF "fee" \in cols THEN to_numeric(r.fee) ELSE <<0>>,
     exchange       |-> <<"hyperliquid">>]

\* DataProcessor.normalize_fill_data
normalize_fill_data(df) ==
    IF IsEmpty(df) THEN df
    ELSE LET renamed == {column_mapping(c) : c \in df.cols}
             oid_nan == \E i \in DOMAIN df.rows : df.rows[i].oid = None
             rows    == [i \in DOMAIN df.rows |->
                            normalize_row(df.rows[i], renamed, oid_nan)]
             subset  == required_fields \cap renamed
             kept    == SelectSeq(rows, LAMBDA r : \A f \in subset : r[f] # None)
         IN  [cols |-> final_columns \cap (renamed \cup {"fee", "exchange"}),
              rows |-> kept]

dedup_subset == {"wallet_address", "timestamp", "asset", "price", "quantity"}

SameKey(r, s) == \A f \in dedup_subset : r[f] = s[f]

\* keep="last" instead of keep="first"
drop_duplicates_KeepLast(rows) ==
    LET idx == {i \in DOMAIN rows :
                   \A j \in (i + 1)..Len(rows) : ~SameKey(rows[j], rows[i])}
        RECURSIVE take(_)
        take(i) == IF i > Len(rows) THEN <<>>
                   ELSE (IF i \in idx THEN <<rows[i]>> ELSE <<>>) \o take(i + 1)
    IN  take(1)

\* drop_duplicates(subset=[...], keep="first") on the rows
drop_duplicates(rows) ==
    LET idx == {i \in DOMAIN rows : \A j \in 1..(i - 1) : ~SameKey(rows[j], rows[i])}
        RECURSIVE take(_)
        take(i) == IF i > Len(rows) THEN <<>>
                   ELSE (IF i \in idx THEN <<rows[i]>> ELSE <<>>) \o take(i + 1)
    IN  take(1)

\* the columns of trades that are nullable=False (models/trade.py)
not_null_columns ==
    {"twap_id", "wallet_address", "timestamp", "asset", "quantity", "price", "side"}

\* the INSERT is rejected: a NOT NULL column is missing from the records or NULL
\* in one of them (a float NaN is stored as NULL)
violates_not_null(df) ==
    \/ ~(not_null_columns \subseteq df.cols)
    \/ \E i \in DOMAIN df.rows : \E c \in not_null_columns : df.rows[i][c] = None


\* a file that fails to parse ends the batch: nothing is processed
process_and_store_AbortBatch(file_list) ==
    LET parsed == [i \in DOMAIN file_list |-> parse_fill_data(file_list[i].content)]
        good   == IF \E i \in DOMAIN parsed : parsed[i].raised THEN <<>>
                  ELSE SelectSeq(parsed, LAMBDA x : ~IsEmpty(x.df))
        all_dataframes == [i \in DOMAIN good |-> good[i].df]
        combined_df    == concat(all_dataframes)
        normalized_df  == normalize_fill_data(combined_df)
    IN  IF all_dataframes = <<>>
        THEN [kind |-> "no_data", batch |-> <<>>, df |-> EmptyFrame]
        ELSE IF IsEmpty(normalized_df)
        THEN [kind |-> "all_dropped", batch |-> normalized_df.rows, df |-> normalized_df]
        ELSE IF ~(dedup_subset \subseteq normalized_df.cols)
        THEN [kind |-> "key_error", batch |-> normalized_df.rows, df |-> normalized_df]
        ELSE [kind |-> "save", batch |-> normalized_df.rows,
              df |-> [cols |-> normalized_df.cols,
                      rows |-> drop_duplicates(normalized_df.rows)]]

\* DataProcessor.process_and_store up to the call of save_to_db: what the pass
\* does with the fetched files and, when it saves, the frame it saves
process_and_store(file_list) ==
    LET parsed == [i \in DOMAIN file_list |-> parse_fill_data(file_list[i].content)]
        good   == SelectSeq(parsed, LAMBDA x : ~x.raised /\ ~IsEmpty(x.df))
        all_dataframes == [i \in DOMAIN good |-> good[i].df]
        combined_df    == concat(all_dataframes)
        normalized_df  == normalize_fill_data(combined_df)
    IN  IF all_dataframes = <<>>
        THEN [kind |-> "no_data", batch |-> <<>>, df |-> EmptyFrame]
        ELSE IF IsEmpty(normalized_df)
        THEN [kind |-> "all_dropped", batch |-> normalized_df.rows, df |-> normalized_df]
        ELSE IF ~(dedup_subset \subseteq normalized_df.cols)
        THEN [kind |-> "key_error", batch |-> normalized_df.rows, df |-> normalized_df]
        ELSE [kind |-> "save", batch |-> normalized_df.rows,
              df |-> [cols |-> normalized_df.cols,
                      rows |-> drop_duplicates(normalized_df.rows)]]

\* ------------------------------------------------------------- the bucket
\* an object of the bucket: node_fills_by_block/<block>/<name>
Object(block, name, last_modified, content) ==
    [block |-> block, name |-> name, last_modified |-> last_modified,
     content |-> content]

\* the lower bound exclusive: an object modified at start_date is left out
list_objects_AfterExclusive(objects, start_date, end_date) ==
    {o \in objects :
        /\ ~(start_date # None /\ o.last_modified <= start_date[1])
        /\ ~(end_date # None /\ o.last_modified > end_date[1])}

\* the start_date filter forgotten
list_objects_NoStart(objects, start_date, end_date) ==
    {o \in objects : ~(end_date # None /\ o.last_modified > end_date[1])}

\* S3Fetcher.list_objects: the objects within the date range
list_objects(objects, start_date, end_date) ==
    {o \in objects :
        /\ ~(start_date # None /\ o.last_modified < start_date[1])
        /\ ~(end_date # None /\ o.last_modified > end_date[1])}

\* S3Fetcher.list_blocks_by_date_range: the distinct block prefixes, sorted
list_blocks_by_date_range(objects, start_date, end_date) ==
    sorted({o.block : o \in list_objects(objects, start_date, end_date)})

\* block_prefixes[-max_blocks:], the newest blocks
Truncate_Newest(s, n) == IF Len(s) > n THEN SubSeq(s, Len(s) - n + 1, Len(s)) ELSE s

\* block_prefixes[:max_blocks]
Truncate(s, n) == IF Len(s) > n THEN SubSeq(s, 1, n) ELSE s

\* key.endswith("/"): a directory marker, here the object named 0
is_directory_marker(o) == o.name = 0

\* S3Fetcher.fetch_block_data when no request fails: every object under the
\* prefix that is not a directory marker, in key order
RECURSIVE fetch_block_data(_, _)
fetch_block_data(objects, block) ==
    LET under == {o \in objects : o.block = block /\ ~is_directory_marker(o)}
    IN  IF under = {} THEN <<>>
        ELSE LET o == CHOOSE x \in under : \A y \in under : x.name <= y.name
             IN  <<[key |-> <<o.block, o.name>>, content |-> o.content]>>
                 \o fetch_block_data(objects \ {o}, block)

\* the fetch loop leaving at the first block that fails
fetch_blocks_AbortOnFailure(objects, block_prefixes, failed) ==
    LET bad == {i \in DOMAIN block_prefixes : block_prefixes[i] \in failed}
        stop == IF bad = {} THEN Len(block_prefixes) + 1
                ELSE CHOOSE i \in bad : \A j \in bad : i <= j
    IN  Flatten([i \in 1..(stop - 1) |-> fetch_block_data(objects, block_prefixes[i])])

\* the fetch loop of fetch_new_data: the blocks in failed are skipped
fetch_blocks(objects, block_prefixes, failed) ==
    Flatten([i \in DOMAIN block_prefixes |->
                IF block_prefixes[i] \in failed THEN <<>>
                ELSE fetch_block_data(objects, block_prefixes[i])])

\* the S3 requests of the fetcher that can fail
list_objects_v2(block) == [op |-> "list_objects_v2", key |-> <<block, 0>>]
get_object(o) == [op |-> "get_object", key |-> <<o.block, o.name>>]

\* a failing get_object skipped and the rest of the block returned
fetch_block_data_call_SkipObject(objects, block, faults) ==
    [raised |-> list_objects_v2(block) \in faults,
     files  |-> IF list_objects_v2(block) \in faults THEN <<>>
                ELSE fetch_block_data({o \in objects : get_object(o) \notin faults},
                                      block)]

\* S3Fetcher.fetch_block_data: the listing of the prefix or the fetch of one
\* of its objects fails and the exception is re-raised, or every file is
\* returned
fetch_block_data_call(objects, block, faults) ==
    LET under  == {o \in objects : o.block = block /\ ~is_directory_marker(o)}
        raised == \/ list_objects_v2(block) \in faults
                  \/ \E o \in under : get_object(o) \in faults
    IN  [raised |-> raised,
         files  |-> IF raised THEN <<>> ELSE fetch_block_data(objects, block)]

\* ------------------------------------------------------------- the store
\* the status filter forgotten: the newest row of any status
last_fetch_date_AnyStatus(metadata) ==
    IF metadata = <<>> THEN None
    ELSE LET i == CHOOSE i \in DOMAIN metadata :
                      \A j \in DOMAIN metadata : metadata[j].last_ingestion_date
                                                    <= metadata[i].last_ingestion_date
         IN  <<metadata[i].last_ingestion_date>>

\* the query of run_daily_ingestion: the newest last_ingestion_date among the
\* success rows
last_fetch_date(metadata) ==
    LET ok == {i \in DOMAIN metadata : metadata[i].status = "success"}
    IN  IF ok = {} THEN None
        ELSE LET i == CHOOSE i \in ok :
                          \A j \in ok : metadata[j].last_ingestion_date
                                          <= metadata[i].last_ingestion_date
             IN  <<metadata[i].last_ingestion_date>>

\* start_date = last_fetch_date or datetime(2023, 1, 1)
start_date_of(last) == IF last = None THEN EpochFloor ELSE last[1]

\* S3Fetcher.fetch_new_data(last_fetch_date) when the listing succeeds
fetch_new_data(objects, last, faults) ==
    LET start_date == start_date_of(last)
        block_prefixes ==
            Truncate(list_blocks_by_date_range(objects, <<start_date>>, None),
                     max_blocks)
        failed == {b \in Range(block_prefixes) :
                      fetch_block_data_call(objects, b, faults).raised}
    IN  fetch_blocks(objects, block_prefixes, failed)

EmptySession == [trades |-> <<>>, metadata |-> <<>>]

\* a row of twap_metadata
MetadataRow(date, records, key, status, error, run) ==
    [last_ingestion_date |-> date, records_processed |-> records,
     s3_object_key |-> key, status |-> status, error_message |-> error,
     created_at |-> date, run |-> run]

\* an autocommit connection: the inserted rows are visible at once
db_execute_Autocommit(committed, pending, rows) ==
    [committed |-> committed \o rows, pending |-> pending]

\* an insert that leaves out the records whose five-field key is stored
db_execute_SkipStored(committed, pending, rows) ==
    [committed |-> committed,
     pending |-> pending \o SelectSeq(rows, LAMBDA x :
                    \A i \in DOMAIN committed : ~SameKey(committed[i].row, x.row))]

\* db.execute(insert(Trade), records): the rows join the open transaction
db_execute(committed, pending, rows) ==
    [committed |-> committed, pending |-> pending \o rows]

\* rollback forgotten: the session keeps its uncommitted rows
rollback_Noop(sess) == sess

\* db.rollback(): the session's uncommitted rows are discarded
rollback(sess) == EmptySession

\* the failed row is added to the session but never committed
save_failed_NotCommitted(metadata, date, key, exc, run) == metadata

\* the except branch of save_to_db after the rollback: a failed row carrying
\* str(e) is added and committed
save_failed(metadata, date, key, exc, run) ==
    Append(metadata, MetadataRow(date, 0, key, "failed", <<exc>>, run))

\* ------------------------------------------------------------- the API
\* config.API_KEY, its default
API_KEY == "dev-key-change-in-production"

\* the X-API-Key headers a client sends: none, the configured key, another key
Keys == {None, <<API_KEY>>, <<"wrong">>}

\* what a rejected request is answered with
Rejected(status_code, detail) ==
    [status_code |-> status_code, detail |-> detail, body |-> <<>>]

\* a handler's return value, serialized
Ok(body) == [status_code |-> 200, detail |-> "", body |-> body]

\* the dependency verify_api_key: Header(...) makes the header required, so a
\* request without it fails validation (422) before the function runs; a
\* different key raises HTTPException(403); 200 stands for a key that passed
verify_api_key(x_api_key) ==
    IF x_api_key = None THEN Rejected(422, "Field required")
    ELSE IF x_api_key[1] # API_KEY THEN Rejected(403, "Invalid API key")
    ELSE Ok(x_api_key[1])

\* a stored trade as the ORM returns it: its id is its position in the table
\* and a column the insert left NULL is None
TradeOf(tbl, i) == [id |-> i] @@ tbl[i].row

\* TradeResponse accepts the trade: every field of the schema holds a value
\* (fee: float is not Optional)
TradeResponse_valid(t) ==
    \A c \in {"twap_id", "wallet_address", "timestamp", "asset", "quantity",
              "price", "side", "fee", "exchange"} : t[c] # None

\* the orders in which rows S of tbl can come back under
\* ORDER BY timestamp DESC: rows of equal timestamp in any order
RECURSIVE order_by_timestamp_desc(_, _)
order_by_timestamp_desc(tbl, S) ==
    IF S = {} THEN {<<>>}
    ELSE UNION {{<<i>> \o rest : rest \in order_by_timestamp_desc(tbl, S \ {i})} :
                   i \in {j \in S : \A k \in S :
                             tbl[k].row.timestamp[1] <= tbl[j].row.timestamp[1]}}

\* query.offset(offset).limit(limit)
offset_limit(s, offset, limit) ==
    SubSeq(s, offset + 1, IF Len(s) < offset + limit THEN Len(s) ELSE offset + limit)

\* the rows get_trades selects
trades_filter(tbl, q) ==
    {i \in DOMAIN tbl :
        /\ q.wallet_addresses # None
              => tbl[i].row.wallet_address[1] \in q.wallet_addresses[1]
        /\ q.start_date # None => tbl[i].row.timestamp[1] >= q.start_date[1]
        /\ q.end_date # None => tbl[i].row.timestamp[1] <= q.end_date[1]
        /\ q.asset # None => tbl[i].row.asset[1] = q.asset[1]
        /\ q.twap_id # None => tbl[i].row.twap_id[1] = q.twap_id[1]}

\* get_trades after the key passed: the responses it can give.  The list is
\* validated against List[TradeResponse] after the handler returned; a trade
\* the schema rejects makes the response a 500.
get_trades(tbl, q) ==
    {LET page == offset_limit(ids, q.offset, q.limit)
         rows == [k \in DOMAIN page |-> TradeOf(tbl, page[k])]
     IN  IF \A k \in DOMAIN rows : TradeResponse_valid(rows[k])
         THEN Ok(rows)
         ELSE Rejected(500, "Internal Server Error") :
     ids \in order_by_timestamp_desc(tbl, trades_filter(tbl, q))}

\* sum(trade.quantity for trade in trades)
RECURSIVE sum_quantity(_, _)
sum_quantity(tbl, S) ==
    IF S = {} THEN 0
    ELSE LET i == CHOOSE j \in S : TRUE
         IN  tbl[i].row.quantity[1] + sum_quantity(tbl, S \ {i})

\* sum(trade.price * trade.quantity for trade in trades)
RECURSIVE sum_notional(_, _)
sum_notional(tbl, S) ==
    IF S = {} THEN 0
    ELSE LET i == CHOOSE j \in S : TRUE
         IN  tbl[i].row.price[1] * tbl[i].row.quantity[1] + sum_notional(tbl, S \ {i})

\* get_twap_order after the key passed.  avg_price is kept as the fraction
\* <<sum of price * quantity, total_volume>>; the trades are validated
\* against TradeResponse when TWAPGroupResponse is built, inside the try, so a
\* trade the schema rejects ends in the handler's 500.
get_twap_order(tbl, twap_id) ==
    LET found == {i \in DOMAIN tbl : tbl[i].row.twap_id[1] = twap_id}
        total_volume == sum_quantity(tbl, found)
    IN  IF found = {}
        THEN Rejected(404, "TWAP order not found")
        ELSE IF \E i \in found : ~TradeResponse_valid(TradeOf(tbl, i))
        THEN Rejected(500, "Internal server error")
        ELSE Ok([twap_id |-> twap_id,
                 total_trades |-> Cardinality(found),
                 total_volume |-> total_volume,
                 avg_price |-> IF total_volume > 0
                               THEN <<sum_notional(tbl, found), total_volume>>
                               ELSE <<0, 1>>,
                 trades |-> {TradeOf(tbl, i) : i \in found}])

\* get_wallet_twaps after the key passed: the distinct twap_ids of the wallet
get_wallet_twaps(tbl, wallet_address, start_date, end_date) ==
    Ok({tbl[i].row.twap_id[1] : i \in
          {j \in DOMAIN tbl :
              /\ tbl[j].row.wallet_address[1] = wallet_address
              /\ start_date # None => tbl[j].row.timestamp[1] >= start_date[1]
              /\ end_date # None => tbl[j].row.timestamp[1] <= end_date[1]}})

\* IngestionStatusResponse built from the latest row m
IngestionStatusResponse(m, total_records) ==
    [last_ingestion |-> <<m.last_ingestion_date>>, total_records |-> total_records,
     status |-> m.status, last_error |-> m.error_message]

\* get_ingestion_status after the key passed: the responses it can give, one
\* per row that order_by(created_at.desc()).first() can return
get_ingestion_status(metadata, tbl) ==
    IF metadata = <<>>
    THEN {Ok([last_ingestion |-> None, total_records |-> 0, status |-> "no_data",
              last_error |-> None])}
    ELSE {Ok(IngestionStatusResponse(metadata[i], Len(tbl))) :
             i \in {j \in DOMAIN metadata :
                       \A k \in DOMAIN metadata :
                           metadata[k].created_at <= metadata[j].created_at}}

\* what one earlier pass over file_list left in the tables: nothing when it
\* did not reach save_to_db, its rows and a success row when the write went
\* through (exc = ""), a failed row carrying exc otherwise
PassWrites(file_list, exc, run, date) ==
    LET res == process_and_store(file_list)
        records == [i \in DOMAIN res.df.rows |-> [row |-> res.df.rows[i], run |-> run]]
    IN  IF res.kind # "save" THEN EmptySession
        ELSE IF exc = ""
        THEN [trades |-> db_execute(<<>>, <<>>, records).pending,
              metadata |-> <<MetadataRow(date, Len(records), Len(file_list),
                                         "success", None, run)>>]
        ELSE [trades |-> rollback(EmptySession).trades,
              metadata |-> save_failed(<<>>, date, Len(file_list), exc, run)]

\* the ways a pass over file_list can end in save_to_db
PassExcs(file_list) ==
    LET res == process_and_store(file_list)
    IN  {"OperationalError"}
           \cup (IF res.kind = "save" /\ violates_not_null(res.df)
                 THEN {"IntegrityError"} ELSE {""})

\* the tables after the passes hist[1], hist[2], ..., pass k ending at time k
RECURSIVE StoreAfter(_, _)
StoreAfter(hist, k) ==
    IF k = 0 THEN EmptySession
    ELSE LET before == StoreAfter(hist, k - 1)
             wrote == PassWrites(hist[k].file_list, hist[k].exc, k, k)
         IN  [trades |-> before.trades \o wrote.trades,
              metadata |-> before.metadata \o wrote.metadata]

VARIABLES
    now,            \* datetime.utcnow()
    bucket,         \* the objects of the bucket under the prefix
    trades,         \* table trades, committed rows in id order
    twap_metadata,  \* table twap_metadata, committed rows in id order
    session,        \* per run process: the rows its session has not committed
    pc,             \* per run process: where run_daily_ingestion stands
    cur,            \* per run process: the number of its current or last run
    runlog,         \* per run: its local variables and its outcome
    quiet,          \* outcomes of the runs completed since the bucket last changed
    tainted,        \* per run process: the bucket changed during its run
    seen,           \* what the API reader last read
    call            \* the last call of a function or an endpoint: arguments and result

vars == <<now, bucket, trades, twap_metadata, session, pc, cur, runlog, quiet,
          tainted, seen, call>>

Procs == {1, 2}

NoCall == [op |-> "none", args |-> <<>>, ret |-> <<>>]

InitStore ==
    /\ trades = <<>>
    /\ twap_metadata = <<>>
    /\ session = [p \in Procs |-> EmptySession]
    /\ pc = [p \in Procs |-> "idle"]
    /\ cur = [p \in Procs |-> 0]
    /\ runlog = <<>>
    /\ quiet = <<>>
    /\ tainted = [p \in Procs |-> FALSE]
    /\ seen = [trades |-> <<>>, metadata |-> <<>>]
    /\ call = NoCall

\* a fresh deployment: empty tables, empty bucket
Init ==
    /\ now = 1
    /\ bucket = {}
    /\ InitStore

\* the buckets of blocks 1..n put at time 1, block b holding content f[b]
BucketOf(f) == {Object(b, 1, 1, f[b]) : b \in DOMAIN f}

\* a fresh deployment facing a bucket filled earlier
InitBatch ==
    /\ now = 2
    /\ \E n \in 1..BatchBlocks : \E f \in [1..n -> Contents] : bucket = BucketOf(f)
    /\ InitStore

\* a fresh deployment facing more blocks than one pass takes
InitBacklog ==
    /\ now = 2
    /\ \E n \in 1..NumBlocks : \E f \in [1..n -> UploadContents] : bucket = BucketOf(f)
    /\ InitStore

\* a fresh deployment facing a bucket filled earlier, for concurrent passes
InitConc ==
    /\ now = 2
    /\ \E n \in 1..ConcBlocks : \E f \in [1..n -> UploadContents] : bucket = BucketOf(f)
    /\ InitStore

Running == {p \in Procs : pc[p] # "idle"}

\* ------------------------------------------------------------- environment
Tick ==
    /\ now < MaxTime
    /\ now' = now + 1
    /\ UNCHANGED <<call, bucket, trades, twap_metadata, session, pc, cur, runlog, quiet,
                   tainted, seen>>

\* the node publishes the next block: one object under a new prefix;
\* LastModified is the time of the put
Upload ==
    /\ Cardinality(bucket) < MaxUploads
    /\ \E c \in UploadContents :
          bucket' = bucket \cup {Object(Cardinality(bucket) + 1, 1, now, c)}
    /\ quiet' = <<>>
    /\ tainted' = [p \in Procs |-> pc[p] # "idle"]
    /\ UNCHANGED <<call, now, trades, twap_metadata, session, pc, cur, runlog, seen>>

\* the node publishes a block beside the one the bucket started with
UploadNext ==
    /\ Cardinality(bucket) <= MaxUploads
    /\ \E c \in UploadContents :
          bucket' = bucket \cup {Object(Cardinality(bucket) + 1, 1, now, c)}
    /\ quiet' = <<>>
    /\ tainted' = [p \in Procs |-> pc[p] # "idle"]
    /\ UNCHANGED <<call, now, trades, twap_metadata, session, pc, cur, runlog, seen>>

\* ------------------------------------------------------------- the pass
\* the end of run_daily_ingestion: it returns, or raises exc
Finish(p, log, outcome, exc, returned) ==
    /\ pc' = [pc EXCEPT ![p] = "idle"]
    /\ runlog' = [log EXCEPT ![cur[p]].outcome = outcome,
                             ![cur[p]].exc = exc,
                             ![cur[p]].returned = returned]
    /\ quiet' = IF tainted[p] THEN <<>>
                ELSE Append(quiet, [run |-> cur[p], outcome |-> outcome])
    /\ tainted' = [tainted EXCEPT ![p] = FALSE]

\* run_daily_ingestion starts: a session is opened and the watermark is read
Start(p) ==
    /\ pc[p] = "idle"
    /\ Len(runlog) < MaxRuns
    /\ cur' = [cur EXCEPT ![p] = Len(runlog) + 1]
    /\ runlog' = Append(runlog,
          [proc |-> p,
           last_fetch_date |-> last_fetch_date(twap_metadata),
           listed |-> <<>>, block_prefixes |-> <<>>, failed |-> {},
           file_list |-> <<>>, batch |-> <<>>,
           outcome |-> "running", exc |-> "", returned |-> 0,
           conc |-> {cur[q] : q \in Running}])
    /\ pc' = [pc EXCEPT ![p] = "list"]
    /\ UNCHANGED <<call, now, bucket, trades, twap_metadata, session, quiet, tainted, seen>>

\* fetch_new_data lists the blocks since the watermark and keeps max_blocks
ListBlocks(p) ==
    /\ pc[p] = "list"
    /\ LET start_date == start_date_of(runlog[cur[p]].last_fetch_date)
           block_prefixes == list_blocks_by_date_range(bucket, <<start_date>>, None)
       IN  runlog' = [runlog EXCEPT ![cur[p]].listed = block_prefixes,
                                    ![cur[p]].block_prefixes =
                                        Truncate(block_prefixes, max_blocks)]
    /\ pc' = [pc EXCEPT ![p] = "fetch"]
    /\ UNCHANGED <<call, now, bucket, trades, twap_metadata, session, cur, quiet, tainted,
                   seen>>

\* the listing raises: list_objects re-raises, the pass raises, nothing is written
ListFails(p) ==
    /\ pc[p] = "list"
    /\ Finish(p, runlog, "list_error", "ClientError", 0)
    /\ UNCHANGED <<call, now, bucket, trades, twap_metadata, session, cur, seen>>

\* the fetch loop, some blocks failing; with no file the pass returns
FetchBlocks(p) ==
    /\ pc[p] = "fetch"
    /\ \E failed \in SUBSET Range(runlog[cur[p]].block_prefixes) :
          LET all_files == fetch_blocks(bucket, runlog[cur[p]].block_prefixes, failed)
              log == [runlog EXCEPT ![cur[p]].failed = failed,
                                    ![cur[p]].file_list = all_files]
          IN  IF all_files = <<>>
              THEN Finish(p, log, "no_files", "", 0)
              ELSE /\ pc' = [pc EXCEPT ![p] = "process"]
                   /\ runlog' = log
                   /\ UNCHANGED <<quiet, tainted>>
    /\ UNCHANGED <<call, now, bucket, trades, twap_metadata, session, cur, seen>>

\* process_and_store ends without calling save_to_db: nothing to process (it
\* returns 0) or drop_duplicates raises KeyError for a column the batch lacks
ProcessNoSave(p) ==
    /\ pc[p] = "process"
    /\ LET res == process_and_store(runlog[cur[p]].file_list)
           log == [runlog EXCEPT ![cur[p]].batch = res.batch]
       IN  /\ res.kind # "save"
           /\ Finish(p, log, res.kind, IF res.kind = "key_error" THEN "KeyError" ELSE "", 0)
    /\ UNCHANGED <<call, now, bucket, trades, twap_metadata, session, cur, seen>>

\* save_to_db: the bulk insert is accepted and the success row is added to the
\* session; nothing is committed yet
BulkInsert(p) ==
    /\ pc[p] = "process"
    /\ LET res == process_and_store(runlog[cur[p]].file_list)
           records == [i \in DOMAIN res.df.rows |->
                          [row |-> res.df.rows[i], run |-> cur[p]]]
           done == db_execute(trades, session[p].trades, records)
       IN  /\ res.kind = "save"
           /\ ~violates_not_null(res.df)
           /\ trades' = done.committed
           /\ session' = [session EXCEPT ![p] =
                 [trades |-> done.pending,
                  metadata |-> <<MetadataRow(now, Len(records),
                                     Len(runlog[cur[p]].file_list), "success",
                                     None, cur[p])>>]]
           /\ runlog' = [runlog EXCEPT ![cur[p]].batch = res.batch]
    /\ pc' = [pc EXCEPT ![p] = "commit"]
    /\ UNCHANGED <<call, now, bucket, twap_metadata, cur, quiet, tainted, seen>>

\* save_to_db: the bulk insert raises (a NOT NULL column is violated, or the
\* database refuses the statement); rollback, failed row, re-raise
BulkInsertFails(p) ==
    /\ pc[p] = "process"
    /\ LET res == process_and_store(runlog[cur[p]].file_list)
           log == [runlog EXCEPT ![cur[p]].batch = res.batch]
       IN  /\ res.kind = "save"
           /\ \E exc \in {"IntegrityError", "OperationalError"} :
                 /\ exc = "IntegrityError" => violates_not_null(res.df)
                 /\ trades' = trades \o rollback(session[p]).trades
                 /\ twap_metadata' =
                        save_failed(twap_metadata \o rollback(session[p]).metadata,
                                    now, Len(runlog[cur[p]].file_list), exc, cur[p])
                 /\ Finish(p, log, "save_failed", exc, 0)
    /\ session' = [session EXCEPT ![p] = EmptySession]
    /\ UNCHANGED <<call, now, bucket, cur, seen>>

\* save_to_db: db.commit() makes the trades and the success row visible at once
Commit(p) ==
    /\ pc[p] = "commit"
    /\ trades' = trades \o session[p].trades
    /\ twap_metadata' = twap_metadata \o session[p].metadata
    /\ session' = [session EXCEPT ![p] = EmptySession]
    /\ Finish(p, runlog, "success", "", Len(session[p].trades))
    /\ UNCHANGED <<call, now, bucket, cur, seen>>

\* save_to_db: db.commit() raises; rollback, failed row, re-raise
CommitFails(p) ==
    /\ pc[p] = "commit"
    /\ trades' = trades \o rollback(session[p]).trades
    /\ twap_metadata' =
           save_failed(twap_metadata \o rollback(session[p]).metadata, now,
                       Len(runlog[cur[p]].file_list), "OperationalError", cur[p])
    /\ session' = [session EXCEPT ![p] = EmptySession]
    /\ Finish(p, runlog, "save_failed", "OperationalError", 0)
    /\ UNCHANGED <<call, now, bucket, cur, seen>>

\* get_trades / get_ingestion_status: a reader sees the committed rows
Read ==
    /\ seen' = [trades |-> trades, metadata |-> twap_metadata]
    /\ UNCHANGED <<call, now, bucket, trades, twap_metadata, session, pc, cur, runlog,
                   quiet, tainted>>

\* ------------------------------------------------------------- calls
\* DataProcessor.normalize_fill_data called on a batch of parsed records
CallNormalize ==
    /\ \E n \in 1..MaxLen : \E data \in [1..n -> Fills] :
          call' = [op |-> "normalize_fill_data", args |-> DataFrame(data),
                   ret |-> normalize_fill_data(DataFrame(data))]
    /\ UNCHANGED <<now, bucket, trades, twap_metadata, session, pc, cur, runlog,
                   quiet, tainted, seen>>

\* the files of a batch: file i holds content f[i]
FilesOf(f) == [i \in DOMAIN f |-> [key |-> <<i, 1>>, content |-> f[i]]]

\* DataProcessor.process_and_store called on a batch of files, up to save_to_db
CallProcess ==
    /\ \E n \in 1..MaxFiles : \E f \in [1..n -> Contents] :
          call' = [op |-> "process_and_store", args |-> FilesOf(f),
                   ret |-> process_and_store(FilesOf(f))]
    /\ UNCHANGED <<now, bucket, trades, twap_metadata, session, pc, cur, runlog,
                   quiet, tainted, seen>>

\* the fills of the batches handed to the deduplication: two with the same
\* five-field key, and two whose key holds a NaN
DedupFills == {FillA, FillADup, FillB, FillBadPx, FillBadSz}

\* normalized_df.drop_duplicates(subset=[...], keep="first") called on a
\* normalized batch
CallDedup ==
    /\ call = NoCall
    /\ \E n \in 1..MaxBatch : \E data \in [1..n -> DedupFills] :
          LET normalized_df == normalize_fill_data(DataFrame(data))
          IN  call' = [op |-> "drop_duplicates", args |-> normalized_df.rows,
                       ret |-> drop_duplicates(normalized_df.rows)]
    /\ UNCHANGED <<now, bucket, trades, twap_metadata, session, pc, cur, runlog,
                   quiet, tainted, seen>>

\* the keys of the fetcher's buckets: blocks 2 and 10; under block 2 a
\* directory marker and two objects, under block 10 one object
FetcherKeys == {<<2, 0>>, <<2, 1>>, <<2, 2>>, <<10, 1>>}

\* what an object of the fetcher's buckets holds
ContentOf(name) == IF name = 0 THEN <<>> ELSE IF name = 1 THEN FileAB ELSE FileADup

\* the buckets the fetcher is called on: each key absent or put at some time
FetcherBuckets ==
    {{Object(k[1], k[2], f[k][1], ContentOf(k[2])) :
         k \in {x \in FetcherKeys : f[x] # None}} :
       f \in [FetcherKeys -> {None} \cup {<<t>> : t \in 1..MaxTime}]}

\* the dates a caller passes
Dates == {None} \cup {<<t>> : t \in EpochFloor..MaxTime}

\* the requests that fail during one call
Faults ==
    {S \in SUBSET ({list_objects_v2(o.block) : o \in bucket}
                      \cup {get_object(o) : o \in bucket}) :
        Cardinality(S) <= MaxFaults}

\* S3Fetcher.list_objects(start_date, end_date)
CallListObjects ==
    /\ call = NoCall
    /\ \E start_date \in Dates : \E end_date \in Dates :
          call' = [op |-> "list_objects",
                   args |-> [start_date |-> start_date, end_date |-> end_date],
                   ret |-> list_objects(bucket, start_date, end_date)]
    /\ UNCHANGED <<now, bucket, trades, twap_metadata, session, pc, cur, runlog,
                   quiet, tainted, seen>>

\* S3Fetcher.list_blocks_by_date_range(start_date, end_date)
CallListBlocks ==
    /\ call = NoCall
    /\ \E start_date \in Dates : \E end_date \in Dates :
          call' = [op |-> "list_blocks_by_date_range",
                   args |-> [start_date |-> start_date, end_date |-> end_date],
                   ret |-> list_blocks_by_date_range(bucket, start_date, end_date)]
    /\ UNCHANGED <<now, bucket, trades, twap_metadata, session, pc, cur, runlog,
                   quiet, tainted, seen>>

\* S3Fetcher.fetch_block_data(block_prefix), the requests in faults failing
CallFetchBlock ==
    /\ call = NoCall
    /\ \E o \in bucket : \E faults \in Faults :
          call' = [op |-> "fetch_block_data",
                   args |-> [block |-> o.block, faults |-> faults],
                   ret |-> fetch_block_data_call(bucket, o.block, faults)]
    /\ UNCHANGED <<now, bucket, trades, twap_metadata, session, pc, cur, runlog,
                   quiet, tainted, seen>>

\* S3Fetcher.fetch_new_data(last_fetch_date), the requests in faults failing
CallFetchNew ==
    /\ call = NoCall
    /\ \E last \in Dates : \E faults \in Faults :
          call' = [op |-> "fetch_new_data",
                   args |-> [last_fetch_date |-> last, faults |-> faults],
                   ret |-> fetch_new_data(bucket, last, faults)]
    /\ UNCHANGED <<now, bucket, trades, twap_metadata, session, pc, cur, runlog,
                   quiet, tainted, seen>>

\* the queries of /api/v1/trades a client sends
TradeQuery(wallet_addresses, start_date, end_date, asset, twap_id, limit, offset) ==
    [wallet_addresses |-> wallet_addresses, start_date |-> start_date,
     end_date |-> end_date, asset |-> asset, twap_id |-> twap_id,
     limit |-> limit, offset |-> offset]

TradeQueries ==
    {TradeQuery(None, None, None, None, None, 100, 0),
     TradeQuery(<<{"w1"}>>, None, None, None, None, 100, 0),
     TradeQuery(None, <<2000>>, None, None, None, 100, 0),
     TradeQuery(None, None, <<1000>>, None, None, 100, 0),
     TradeQuery(None, None, None, <<"ETH">>, None, 100, 0),
     TradeQuery(None, None, None, None, <<"7">>, 100, 0),
     TradeQuery(None, None, None, None, None, 1, 1)}

TwapIds == {"7", "8", "9", "nan"}

\* GET /api/v1/trades
GetTrades ==
    /\ \E x_api_key \in Keys : \E q \in TradeQueries :
          LET auth == verify_api_key(x_api_key)
          IN  \E ret \in IF auth.status_code # 200 THEN {auth}
                          ELSE get_trades(trades, q) :
                 call' = [op |-> "get_trades", args |-> <<x_api_key, q>>, ret |-> ret]
    /\ UNCHANGED <<now, bucket, trades, twap_metadata, session, pc, cur, runlog,
                   quiet, tainted, seen>>

\* GET /api/v1/twap/{twap_id}
GetTwapOrder ==
    /\ \E x_api_key \in Keys : \E twap_id \in TwapIds :
          LET auth == verify_api_key(x_api_key)
          IN  call' = [op |-> "get_twap_order", args |-> <<x_api_key, twap_id>>,
                       ret |-> IF auth.status_code # 200 THEN auth
                               ELSE get_twap_order(trades, twap_id)]
    /\ UNCHANGED <<now, bucket, trades, twap_metadata, session, pc, cur, runlog,
                   quiet, tainted, seen>>

\* GET /api/v1/wallets/{wallet_address}/twaps
GetWalletTwaps ==
    /\ \E x_api_key \in Keys : \E wallet_address \in {"w1", "w3"} :
       \E start_date \in {None, <<2000>>} :
          LET auth == verify_api_key(x_api_key)
          IN  call' = [op |-> "get_wallet_twaps",
                       args |-> <<x_api_key, wallet_address, start_date>>,
                       ret |-> IF auth.status_code # 200 THEN auth
                               ELSE get_wallet_twaps(trades, wallet_address,
                                                     start_date, None)]
    /\ UNCHANGED <<now, bucket, trades, twap_metadata, session, pc, cur, runlog,
                   quiet, tainted, seen>>

\* GET /api/v1/status
GetIngestionStatus ==
    /\ \E x_api_key \in Keys :
          LET auth == verify_api_key(x_api_key)
          IN  \E ret \in IF auth.status_code # 200 THEN {auth}
                          ELSE get_ingestion_status(twap_metadata, trades) :
                 call' = [op |-> "get_ingestion_status", args |-> <<x_api_key>>,
                          ret |-> ret]
    /\ UNCHANGED <<now, bucket, trades, twap_metadata, session, pc, cur, runlog,
                   quiet, tainted, seen>>

run_daily_ingestion(p) ==
    \/ Start(p)
    \/ ListBlocks(p)
    \/ ListFails(p)
    \/ FetchBlocks(p)
    \/ ProcessNoSave(p)
    \/ BulkInsert(p)
    \/ BulkInsertFails(p)
    \/ Commit(p)
    \/ CommitFails(p)

\* one pass at a time, the bucket growing
Next ==
    \/ Tick
    \/ Upload
    \/ run_daily_ingestion(1)

Spec == Init /\ [][Next]_vars

\* passes over a bucket that does not change
NextBatch == run_daily_ingestion(1)

SpecBatch == InitBatch /\ [][NextBatch]_vars

\* the same passes over a backlog of more than max_blocks blocks
SpecBacklog == InitBacklog /\ [][NextBatch]_vars

\* passes triggered concurrently, and an API reader
NextConc ==
    \/ \E p \in Procs : run_daily_ingestion(p)
    \/ Read

SpecConc == InitConc /\ [][NextConc]_vars

\* the data processor's functions called on batches of records and of files
NextProcessor ==
    \/ CallNormalize
    \/ CallProcess

SpecProcessor == Init /\ [][NextProcessor]_vars

\* a fresh deployment facing one block, the node publishing while a pass runs
InitRace ==
    /\ now = EpochFloor
    /\ bucket = {Object(1, 1, EpochFloor, FileAB)}
    /\ InitStore

NextRace ==
    \/ Tick
    \/ UploadNext
    \/ run_daily_ingestion(1)

SpecRace == InitRace /\ [][NextRace]_vars

\* the deduplication called on a batch, one call in a behaviour
SpecDedup == Init /\ [][CallDedup]_vars

\* a deployment that has run before: the tables as up to MaxHistory earlier
\* passes left them, pass k ending at time k, and a bucket holding one block
\* for each time from the floor to now, the newest with a malformed line
InitResume ==
    /\ now = MaxHistory + 1
    /\ bucket = {Object(t + 1, 1, t, IF t > MaxHistory THEN FileBad ELSE FileAB) :
                    t \in EpochFloor..(MaxHistory + 1)}
    /\ session = [p \in Procs |-> EmptySession]
    /\ pc = [p \in Procs |-> "idle"]
    /\ cur = [p \in Procs |-> 0]
    /\ runlog = <<>>
    /\ quiet = <<>>
    /\ tainted = [p \in Procs |-> FALSE]
    /\ seen = [trades |-> <<>>, metadata |-> <<>>]
    /\ call = NoCall
    /\ \E n \in 0..MaxHistory : \E f \in [1..n -> UploadContents] :
       \E e \in [1..n -> {"", "IntegrityError", "OperationalError"}] :
          /\ \A k \in 1..n : e[k] \in PassExcs(FilesOf(<<f[k]>>))
          /\ LET hist == [k \in 1..n |->
                             [file_list |-> FilesOf(<<f[k]>>), exc |-> e[k]]]
             IN  /\ trades = StoreAfter(hist, n).trades
                 /\ twap_metadata = StoreAfter(hist, n).metadata

SpecResume == InitResume /\ [][NextBatch]_vars

\* the fetcher's functions called on a bucket, one call in a behaviour: a
\* call's result does not depend on the calls before it
InitFetcher ==
    /\ now = 1
    /\ bucket \in FetcherBuckets
    /\ InitStore

NextFetcher ==
    \/ CallListObjects
    \/ CallListBlocks
    \/ CallFetchBlock
    \/ CallFetchNew

SpecFetcher == InitFetcher /\ [][NextFetcher]_vars

\* the tables as earlier passes left them, each pass over one file
InitApi ==
    /\ now = MaxRuns + 1
    /\ bucket = {}
    /\ session = [p \in Procs |-> EmptySession]
    /\ pc = [p \in Procs |-> "idle"]
    /\ cur = [p \in Procs |-> 0]
    /\ runlog = <<>>
    /\ quiet = <<>>
    /\ tainted = [p \in Procs |-> FALSE]
    /\ seen = [trades |-> <<>>, metadata |-> <<>>]
    /\ call = NoCall
    /\ \E n \in 0..MaxRuns : \E f \in [1..n -> Contents] :
       \E e \in [1..n -> {"", "IntegrityError", "OperationalError"}] :
          /\ \A k \in 1..n : e[k] \in PassExcs(FilesOf(<<f[k]>>))
          /\ LET hist == [k \in 1..n |->
                             [file_list |-> FilesOf(<<f[k]>>), exc |-> e[k]]]
             IN  /\ trades = StoreAfter(hist, n).trades
                 /\ twap_metadata = StoreAfter(hist, n).metadata

\* clients of the read API over those tables
NextApi ==
    \/ GetTrades
    \/ GetTwapOrder
    \/ GetWalletTwaps
    \/ GetIngestionStatus

SpecApi == InitApi /\ [][NextApi]_vars

\* ------------------------------------------------------------- claims
Runs == DOMAIN runlog
Finished(r) == runlog[r].outcome # "running"
RowsOfRun(r) == {i \in DOMAIN twap_metadata : twap_metadata[i].run = r}
TradesOfRun(r) == {i \in DOMAIN trades : trades[i].run = r}

\* the date the next pass would list from
Watermark == start_date_of(last_fetch_date(twap_metadata))

C3_WatermarkMonotone ==
    [][/\ start_date_of(last_fetch_date(twap_metadata'))
            >= start_date_of(last_fetch_date(twap_metadata))
       /\ \A r \in Runs :
             (runlog[r].outcome = "running"
                 /\ runlog'[r].outcome \notin {"running", "success"})
             => start_date_of(last_fetch_date(twap_metadata'))
                   = start_date_of(runlog[r].last_fetch_date)]_vars

\* a pass failed in save_to_db after an earlier pass had succeeded, and the
\* watermark is still the date of the earlier success
C3_Witness ==
    \E r \in Runs :
        /\ runlog[r].outcome = "save_failed"
        /\ runlog[r].last_fetch_date # None
        /\ \E i \in RowsOfRun(r) :
              twap_metadata[i].last_ingestion_date > runlog[r].last_fetch_date[1]
        /\ Watermark = runlog[r].last_fetch_date[1]

\* the rows of run r a reader has seen
SeenTrades(r) == {i \in DOMAIN seen.trades : seen.trades[i].run = r}
SeenSuccess(r) ==
    {i \in DOMAIN seen.metadata :
        seen.metadata[i].run = r /\ seen.metadata[i].status = "success"}

\* C4: whatever a reader has read, for every run it holds either no trade row
\* and no success row of the run, or the success row together with every
\* trade row of the run's deduplicated batch.
C4_ReaderSeesWholeRuns ==
    \A r \in Runs :
        \/ SeenTrades(r) = {} /\ SeenSuccess(r) = {}
        \/ /\ Cardinality(SeenSuccess(r)) = 1
           /\ Cardinality(SeenTrades(r)) = Len(drop_duplicates(runlog[r].batch))
           /\ \A i \in SeenSuccess(r) :
                 seen.metadata[i].records_processed = Cardinality(SeenTrades(r))

\* the reader read while one pass had inserted but not committed, after
\* another pass had committed
C4_Witness ==
    \E p \in Procs :
        /\ pc[p] = "commit"
        /\ session[p].trades # <<>>
        /\ seen.trades = trades
        /\ seen.metadata = twap_metadata
        /\ \E r \in Runs : r # cur[p] /\ SeenSuccess(r) # {} /\ SeenTrades(r) # {}

\* the trade rows run r persisted, in id order
RECURSIVE PersistedFrom(_, _)
PersistedFrom(r, i) ==
    IF i > Len(trades) THEN <<>>
    ELSE (IF trades[i].run = r THEN <<trades[i].row>> ELSE <<>>)
         \o PersistedFrom(r, i + 1)
Persisted(r) == PersistedFrom(r, 1)

\* the first row of the batch with the key of row x
FirstWithKey(batch, x) ==
    batch[CHOOSE i \in DOMAIN batch :
             /\ SameKey(batch[i], x)
             /\ \A j \in 1..(i - 1) : ~SameKey(batch[j], x)]

\* C5: the rows a run persisted hold no five-field key twice; every key of
\* the normalized batch is persisted, by the first row that carries it in the
\* batch's order.
C5_OneRowPerKeyFirstWins ==
    \A r \in Runs :
        runlog[r].outcome = "success" =>
            LET P == Persisted(r)
                B == runlog[r].batch
            IN  /\ \A i, j \in DOMAIN P : i # j => ~SameKey(P[i], P[j])
                /\ \A i \in DOMAIN B :
                      \E k \in DOMAIN P : P[k] = FirstWithKey(B, B[i])
                /\ \A k \in DOMAIN P : \E i \in DOMAIN B : P[k] = B[i]

\* the duplicate came from another file of the batch and differs in twap_id
C5_Witness ==
    \E r \in Runs :
        /\ runlog[r].outcome = "success"
        /\ Len(runlog[r].file_list) >= 2
        /\ \E i, j \in DOMAIN runlog[r].batch :
              /\ i < j
              /\ SameKey(runlog[r].batch[i], runlog[r].batch[j])
              /\ runlog[r].batch[i] # runlog[r].batch[j]
              /\ \E k \in DOMAIN Persisted(r) : Persisted(r)[k] = runlog[r].batch[i]

\* the blocks the next pass would list
Eligible == Range(list_blocks_by_date_range(bucket, <<Watermark>>, None))

\* a later pass than r listed block b
EnumeratedAfter(r, b) ==
    \E r2 \in Runs : r2 > r /\ b \in Range(runlog[r2].listed)

\* the blocks run r listed and cut off at max_blocks
Deferred(r) == Range(runlog[r].listed) \ Range(runlog[r].block_prefixes)

\* C6 as stated: once a pass that listed more than max_blocks blocks is over,
\* each block it deferred has been listed by a later pass or is listed by the
\* next one.
C6_DeferredBlocksStayEligible ==
    pc[1] = "idle" =>
        \A r \in Runs : \A b \in Deferred(r) :
            EnumeratedAfter(r, b) \/ b \in Eligible

\* C7 as stated: once a pass is over, each block whose fetch failed in it has
\* been listed by a later pass or is listed by the next one.
C7_FailedBlocksStayEligible ==
    pc[1] = "idle" =>
        \A r \in Runs : \A b \in runlog[r].failed :
            EnumeratedAfter(r, b) \/ b \in Eligible

\* the date of the success row of run r
SuccessDate(r) ==
    LET i == CHOOSE i \in RowsOfRun(r) : twap_metadata[i].status = "success"
    IN  twap_metadata[i].last_ingestion_date

\* C8 as stated: of two passes in succession over a bucket that did not change,
\* the second adds no trade row, whatever the first did.
C8_SecondCallAddsNothing ==
    \A i \in 2..Len(quiet) : TradesOfRun(quiet[i].run) = {}

\* C8 amended: of two passes in succession over a bucket that did not change,
\* the second adds no trade row when the first recorded success at a time
\* later than the modification time of every object.
C8_SecondCallAfterSuccessAddsNothing ==
    \A i \in 2..Len(quiet) :
        (/\ quiet[i - 1].outcome = "success"
         /\ \A o \in bucket : o.last_modified < SuccessDate(quiet[i - 1].run))
        => TradesOfRun(quiet[i].run) = {}

C8_Witness ==
    /\ Len(quiet) = 2
    /\ quiet[1].outcome = "success"
    /\ TradesOfRun(quiet[1].run) # {}
    /\ \A o \in bucket : o.last_modified < SuccessDate(quiet[1].run)
    /\ TradesOfRun(quiet[2].run) = {}

\* C9 as stated: no two passes that were in progress together read the same
\* watermark and both persist the same fill.
C9_ConcurrentRunsSerialized ==
    ~\E r1, r2 \in Runs :
        /\ r1 \in runlog[r2].conc
        /\ runlog[r1].last_fetch_date = runlog[r2].last_fetch_date
        /\ \E i \in TradesOfRun(r1), j \in TradesOfRun(r2) :
              trades[i].row = trades[j].row

HasBadLine(content) == \E i \in DOMAIN content : content[i].kind = "bad"
HasRecord(content) == \E i \in DOMAIN content : content[i].kind = "json"

\* the fetched files of run r with a line that is not valid JSON
BadFiles(r) ==
    {i \in DOMAIN runlog[r].file_list : HasBadLine(runlog[r].file_list[i].content)}

\* the objects those files were fetched from
BadObjects(r) ==
    {o \in bucket : \E i \in BadFiles(r) :
        runlog[r].file_list[i].key = <<o.block, o.name>>}

\* C10 as stated: a pass that fetched an object with a malformed line is
\* recorded failed, and the watermark is not past that object.
C10_BadLineRunRecordedFailed ==
    \A r \in Runs :
        (Finished(r) /\ BadFiles(r) # {}) =>
            /\ \E i \in RowsOfRun(r) : twap_metadata[i].status = "failed"
            /\ \A o \in BadObjects(r) : Watermark <= o.last_modified

\* C10 amended: a pass that fetched an object with a malformed line leaves the
\* object out and is not recorded failed for it.  With no other file yielding
\* records it appends no row and the watermark stays; a failed row appears only
\* for a failure of the bulk write or commit of the other files' rows; and when
\* those rows are persisted the pass is recorded success and the watermark
\* moves to its completion time, past the object.
C10_BadLineFileSkipped ==
    \A r \in Runs :
        (Finished(r) /\ BadFiles(r) # {}) =>
            LET yields == \E i \in DOMAIN runlog[r].file_list \ BadFiles(r) :
                              HasRecord(runlog[r].file_list[i].content)
            IN  /\ ~yields => /\ runlog[r].outcome = "no_data"
                              /\ RowsOfRun(r) = {}
                /\ (~yields /\ r = Len(runlog)) =>
                      Watermark = start_date_of(runlog[r].last_fetch_date)
                /\ (\E i \in RowsOfRun(r) : twap_metadata[i].status = "failed") =>
                      /\ yields
                      /\ runlog[r].outcome = "save_failed"
                      /\ runlog[r].exc \in {"IntegrityError", "OperationalError"}
                /\ runlog[r].outcome = "success" =>
                      \A o \in BadObjects(r) :
                          /\ o.last_modified < SuccessDate(r)
                          /\ SuccessDate(r) <= Watermark

\* a pass persisted the rows of a good file next to a file with a bad line
C10_Witness ==
    \E r \in Runs :
        /\ BadFiles(r) # {}
        /\ runlog[r].outcome = "success"
        /\ TradesOfRun(r) # {}
        /\ \A o \in BadObjects(r) : o.last_modified < Watermark

\* the files of run r without a malformed line
GoodFiles(r) ==
    SelectSeq(runlog[r].file_list, LAMBDA f : ~HasBadLine(f.content))

\* the records of a file's JSON lines, in order
RecordsOf(content) ==
    LET lines == SelectSeq(content, LAMBDA l : l.kind = "json")
    IN  [i \in DOMAIN lines |-> lines[i].rec]

\* the batch the files without a malformed line give on their own
BatchOfGoodFiles(r) ==
    LET good == GoodFiles(r)
        data == Flatten([i \in DOMAIN good |-> RecordsOf(good[i].content)])
    IN  normalize_fill_data(DataFrame(data)).rows

\* C11: for a pass that fetched a file with a malformed line, the normalized
\* batch is exactly what the other files' records give, no record of the
\* malformed file among them, and a pass that persists persists exactly the
\* deduplicated rows of those other files.
C11_ParseFailureConfined ==
    \A r \in Runs :
        (Finished(r) /\ BadFiles(r) # {}) =>
            /\ runlog[r].batch = BatchOfGoodFiles(r)
            /\ runlog[r].outcome = "success" =>
                  Persisted(r) = drop_duplicates(BatchOfGoodFiles(r))

\* a pass persisted the rows of a good file, and the valid line that precedes
\* the malformed one in the other file is not in its batch
C11_Witness ==
    \E r \in Runs :
        /\ runlog[r].outcome = "success"
        /\ Persisted(r) # <<>>
        /\ \E i \in BadFiles(r) :
              LET recs == RecordsOf(runlog[r].file_list[i].content)
              IN  /\ recs # <<>>
                  /\ \A j \in DOMAIN recs : \A k \in DOMAIN runlog[r].batch :
                        runlog[r].batch[k].wallet_address # recs[j].user

\* C12 as stated: no record of the normalizer's output lacks wallet_address,
\* timestamp or asset, also when the whole batch lacks the field, and
\* process_and_store does not raise for a batch that lacks one of them.
C12_MissingRequiredDropped ==
    /\ call.op = "normalize_fill_data" =>
          \A i \in DOMAIN call.ret.rows : \A f \in required_fields :
              f \in call.ret.cols /\ call.ret.rows[i][f] # None
    /\ call.op = "process_and_store" =>
          (call.ret.kind = "key_error" => required_fields \subseteq call.ret.df.cols)

\* every record of the call's batch carries px and sz
AllCarry(df, fields) ==
    \A i \in DOMAIN df.rows : \A f \in fields : df.rows[i][f] # None

\* C13 as stated: of a batch whose records all carry px and sz, no record
\* with a px or sz that is not a number is in the normalizer's output or in
\* the frame handed to save_to_db.
C13_NonNumericDropped ==
    /\ (call.op = "normalize_fill_data" /\ AllCarry(call.args, {"px", "sz"})) =>
          \A i \in DOMAIN call.ret.rows :
              call.ret.rows[i].price # None /\ call.ret.rows[i].quantity # None
    /\ (call.op = "process_and_store" /\ call.ret.kind = "save"
           /\ \A k \in DOMAIN call.args :
                 \A j \in DOMAIN RecordsOf(call.args[k].content) :
                     /\ RecordsOf(call.args[k].content)[j].px # None
                     /\ RecordsOf(call.args[k].content)[j].sz # None) =>
          \A i \in DOMAIN call.ret.df.rows :
              call.ret.df.rows[i].price # None /\ call.ret.df.rows[i].quantity # None

\* C14 as stated: every record of the normalizer's output has a numeric fee,
\* and of a batch that loses no record, a record whose source fee is missing
\* or not a number has fee 0.
C14_FeeDefaultsToZero ==
    call.op = "normalize_fill_data" =>
        /\ \A i \in DOMAIN call.ret.rows : call.ret.rows[i].fee # None
        /\ Len(call.ret.rows) = Len(call.args.rows) =>
              \A i \in DOMAIN call.ret.rows :
                  to_numeric(call.args.rows[i].fee) = None
                      => call.ret.rows[i].fee = <<0>>

\* the side the specification gives a source value
SideOf(v) ==
    IF v = <<"B">> THEN <<"buy">> ELSE IF v = <<"A">> THEN <<"sell">> ELSE <<"unknown">>

\* C15 as stated: of a batch that loses no record, each output record has
\* the side of its source value, unknown when the value is absent; and the
\* frame handed to save_to_db holds no other side.
C15_SideMapped ==
    /\ (call.op = "normalize_fill_data"
           /\ Len(call.ret.rows) = Len(call.args.rows)) =>
          \A i \in DOMAIN call.ret.rows :
              /\ "side" \in call.ret.cols
              /\ call.ret.rows[i].side = SideOf(call.args.rows[i].side)
    /\ (call.op = "process_and_store" /\ call.ret.kind = "save") =>
          \A i \in DOMAIN call.ret.df.rows :
              call.ret.df.rows[i].side \in {<<"buy">>, <<"sell">>, <<"unknown">>}

\* the tables with the error_message of the newest row, a failed one, replaced
WithError(metadata, m) ==
    [metadata EXCEPT ![Len(metadata)].error_message = <<m>>]

\* C16 as stated: the status response for a store whose newest row is failed
\* is also the response for the store that differs in that row's
\* error_message only.
C16_StatusHidesErrorDetail ==
    (/\ call.op = "get_ingestion_status"
     /\ call.ret.status_code = 200
     /\ twap_metadata # <<>>
     /\ twap_metadata[Len(twap_metadata)].status = "failed") =>
        \A m \in {"IntegrityError", "OperationalError"} :
            call.ret \in get_ingestion_status(WithError(twap_metadata, m), trades)

ApiOps == {"get_trades", "get_twap_order", "get_wallet_twaps", "get_ingestion_status"}

\* C17 as stated: a request to a protected endpoint without the header or
\* with another key is answered 403 and carries no data.
C17_BadKeyForbidden ==
    (call.op \in ApiOps /\ call.args[1] # <<API_KEY>>) =>
        /\ call.ret.status_code = 403
        /\ call.ret.body = <<>>

\* the stored trades with twap_id t
StoredWithTwap(t) == {i \in DOMAIN trades : trades[i].row.twap_id = <<t>>}

\* C18 as stated: with the configured key, the TWAP order endpoint answers
\* 404 when no stored trade has the twap_id, and otherwise 200 with the
\* number of the stored trades of that twap_id and the sum of their
\* quantities.
C18_TwapOrderTotals ==
    (call.op = "get_twap_order" /\ call.args[1] = <<API_KEY>>) =>
        LET found == StoredWithTwap(call.args[2])
        IN  IF found = {}
            THEN call.ret.status_code = 404
            ELSE /\ call.ret.status_code = 200
                 /\ call.ret.body.total_trades = Cardinality(found)
                 /\ call.ret.body.total_volume = sum_quantity(trades, found)

CanonicalFields ==
    {"twap_id", "wallet_address", "timestamp", "asset", "quantity", "price"}

\* C19 as stated: every record of the normalizer's output carries the six
\* canonical fields, whatever fields the batch's records carry.
C19_CanonicalFieldsPresent ==
    (call.op = "normalize_fill_data" /\ call.ret.rows # <<>>) =>
        CanonicalFields \subseteq call.ret.cols

\* run r has listed
HasListed(r) ==
    ~(runlog[r].outcome = "list_error"
        \/ (runlog[r].outcome = "running" /\ pc[runlog[r].proc] = "list"))

\* C20: the blocks a pass lists are the distinct blocks holding an object
\* within the range, in ascending order; the blocks it fetches are the first
\* max_blocks of them, so at most max_blocks; and every file it fetched and
\* every fetch that failed belongs to one of these.
C20_FetchesFirstMaxBlocks ==
    \A r \in Runs :
        HasListed(r) =>
            LET L == runlog[r].listed
                F == runlog[r].block_prefixes
                start_date == start_date_of(runlog[r].last_fetch_date)
            IN  /\ Range(L) = {o.block : o \in list_objects(bucket, <<start_date>>, None)}
                /\ \A i, j \in DOMAIN L :
                      i < j => str_lt(block_prefix(L[i]), block_prefix(L[j]))
                /\ Len(F) <= max_blocks
                /\ Len(F) = IF Len(L) < max_blocks THEN Len(L) ELSE max_blocks
                /\ \A i \in DOMAIN F : F[i] = L[i]
                /\ runlog[r].failed \subseteq Range(F)
                /\ \A k \in DOMAIN runlog[r].file_list :
                      runlog[r].file_list[k].key[1] \in Range(F)

\* a pass listed more than max_blocks blocks and persisted the first ones
C20_Witness ==
    \E r \in Runs :
        /\ Len(runlog[r].listed) > max_blocks
        /\ Len(runlog[r].block_prefixes) = max_blocks
        /\ runlog[r].outcome = "success"
        /\ {runlog[r].file_list[k].key[1] : k \in DOMAIN runlog[r].file_list}
              = Range(runlog[r].block_prefixes)

\* run r is past the fetch loop of fetch_new_data
HasFetched(r) ==
    /\ HasListed(r)
    /\ ~(runlog[r].outcome = "running" /\ pc[runlog[r].proc] = "fetch")

\* the keys of the objects under the blocks run r selected and fetched
KeysOfFetched(r) ==
    {<<o.block, o.name>> :
        o \in {x \in bucket : x.block \in Range(runlog[r].block_prefixes)
                                            \ runlog[r].failed}}

\* C21: a pass in which the fetch of some block failed does not raise for it;
\* it holds the files of exactly the other selected blocks, in the order of
\* the blocks; with any such file it goes on to process_and_store, and when
\* it persists it persists the deduplicated rows of those files.
C21_BlockFailureSkipsBlock ==
    \A r \in Runs :
        (HasFetched(r) /\ runlog[r].failed # {}) =>
            LET F == runlog[r].file_list
            IN  /\ {F[k].key : k \in DOMAIN F} = KeysOfFetched(r)
                /\ \A j, k \in DOMAIN F :
                      j < k => prefix_le(F[j].key[1], F[k].key[1])
                /\ \A k \in DOMAIN F : \E o \in bucket :
                      /\ <<o.block, o.name>> = F[k].key
                      /\ o.content = F[k].content
                /\ runlog[r].exc # "" =>
                      runlog[r].outcome \in {"key_error", "save_failed"}
                /\ (Finished(r) /\ F # <<>>) => runlog[r].outcome # "no_files"
                /\ runlog[r].outcome = "success" =>
                      Persisted(r) = drop_duplicates(BatchOfGoodFiles(r))

\* one pass lost its first block and went on to save_to_db with the files of
\* the second; another lost its last block and persisted the rows of the first
C21_Witness ==
    \E r1, r2 \in Runs :
        /\ Len(runlog[r1].block_prefixes) = max_blocks
        /\ runlog[r1].failed = {runlog[r1].block_prefixes[1]}
        /\ runlog[r1].outcome \in {"success", "save_failed"}
        /\ runlog[r1].file_list # <<>>
        /\ Len(runlog[r2].block_prefixes) = max_blocks
        /\ runlog[r2].failed = {runlog[r2].block_prefixes[max_blocks]}
        /\ runlog[r2].outcome = "success"
        /\ Persisted(r2) # <<>>

\* the objects of the bucket under block b that are not directory markers
FilesUnder(b) == {o \in bucket : o.block = b /\ ~is_directory_marker(o)}

\* a request of faults concerns block b
FaultIn(faults, b) ==
    \/ list_objects_v2(b) \in faults
    \/ \E o \in FilesUnder(b) : get_object(o) \in faults

\* the files of s that lie under block b
OfBlock(s, b) == {k \in DOMAIN s : s[k].key[1] = b}

\* C22: fetch_block_data raises and returns nothing when the listing of the
\* prefix or the fetch of one of its objects fails, and otherwise returns
\* every object under the prefix that is not a directory marker; what
\* fetch_new_data returns holds, for each block, all of those objects or none.
C22_BlockFetchAllOrNothing ==
    /\ call.op = "fetch_block_data" =>
          LET b == call.args.block
          IN  IF FaultIn(call.args.faults, b)
              THEN call.ret.raised /\ call.ret.files = <<>>
              ELSE /\ ~call.ret.raised
                   /\ {f.key : f \in Range(call.ret.files)}
                         = {<<o.block, o.name>> : o \in FilesUnder(b)}
                   /\ Len(call.ret.files) = Cardinality(FilesUnder(b))
    /\ call.op = "fetch_new_data" =>
          \A b \in {o.block : o \in bucket} :
              LET got == OfBlock(call.ret, b)
              IN  /\ got = {} \/ Cardinality(got) = Cardinality(FilesUnder(b))
                  /\ \A o \in FilesUnder(b) :
                        got # {} => \E k \in got :
                            /\ call.ret[k].key = <<o.block, o.name>>
                            /\ call.ret[k].content = o.content
                  /\ FaultIn(call.args.faults, b) => got = {}

\* the fetch of one of the two objects of block 2 failed: fetch_new_data
\* returned the file of block 10 and neither file of block 2
C22_Witness ==
    /\ call.op = "fetch_new_data"
    /\ Cardinality(FilesUnder(2)) = 2
    /\ \E o \in FilesUnder(2) : call.args.faults = {get_object(o)}
    /\ OfBlock(call.ret, 2) = {}
    /\ OfBlock(call.ret, 10) # {}

\* C23 as stated: list_objects returns the objects modified after start_date
\* and not after end_date, each bound applying when it is given.
C23_ListsAfterExclusive ==
    call.op = "list_objects" =>
        call.ret = {o \in bucket :
                       /\ call.args.start_date # None
                             => call.args.start_date[1] < o.last_modified
                       /\ call.args.end_date # None
                             => o.last_modified <= call.args.end_date[1]}

\* C23 amended: list_objects returns the objects modified at or after
\* start_date and not after end_date, each bound applying when it is given;
\* without bounds it returns every object.
C23_ListsFromInclusive ==
    call.op = "list_objects" =>
        /\ call.ret = {o \in bucket :
                          /\ call.args.start_date # None
                                => call.args.start_date[1] <= o.last_modified
                          /\ call.args.end_date # None
                                => o.last_modified <= call.args.end_date[1]}
        /\ (call.args.start_date = None /\ call.args.end_date = None)
              => call.ret = bucket

\* an object modified at start_date, which is also end_date, is listed and an
\* older one is not
C23_Witness ==
    /\ call.op = "list_objects"
    /\ call.args.start_date # None
    /\ call.args.end_date = call.args.start_date
    /\ \E o \in call.ret : o.last_modified = call.args.start_date[1]
    /\ \E o \in bucket \ call.ret : o.last_modified < call.args.start_date[1]

\* C24: list_blocks_by_date_range returns each block that holds a listed
\* object of the date range, no other block, none twice, ascending by prefix
\* string.
C24_BlocksDistinctSorted ==
    call.op = "list_blocks_by_date_range" =>
        LET L == call.ret
            listed == list_objects(bucket, call.args.start_date, call.args.end_date)
        IN  /\ \A b \in {o.block : o \in bucket} :
                  (\E i \in DOMAIN L : L[i] = b) <=> (\E o \in listed : o.block = b)
            /\ \A i \in DOMAIN L : \E o \in bucket : o.block = L[i]
            /\ \A i, j \in DOMAIN L : i # j => L[i] # L[j]
            /\ \A i, j \in DOMAIN L :
                  i < j => str_lt(block_prefix(L[i]), block_prefix(L[j]))

\* block 10 is returned before block 2, block 2 once for its listed objects
C24_Witness ==
    /\ call.op = "list_blocks_by_date_range"
    /\ call.ret = <<10, 2>>
    /\ Cardinality({o \in list_objects(bucket, call.args.start_date,
                                        call.args.end_date) : o.block = 2}) >= 2

\* the success rows of the committed twap_metadata
SuccessRows == {i \in DOMAIN twap_metadata : twap_metadata[i].status = "success"}

\* C25: while a pass runs, the watermark it read is the largest
\* last_ingestion_date among the success rows, whatever failed rows there
\* are, and none when there is no success row; what it listed are the blocks
\* holding an object modified at or after that date, or at or after the
\* floor when it read none.
C25_WatermarkIsNewestSuccess ==
    \A p \in Procs :
        pc[p] # "idle" =>
            LET r == cur[p]
                w == runlog[r].last_fetch_date
            IN  /\ SuccessRows = {} <=> w = None
                /\ w # None =>
                      /\ \E i \in SuccessRows :
                            twap_metadata[i].last_ingestion_date = w[1]
                      /\ \A i \in SuccessRows :
                            twap_metadata[i].last_ingestion_date <= w[1]
                /\ HasListed(r) =>
                      Range(runlog[r].listed) =
                         {o.block : o \in {x \in bucket :
                             x.last_modified >= (IF w = None THEN EpochFloor ELSE w[1])}}

\* a pass started from the date of a success row although a failed row is
\* more recent, and listed a block modified between the two dates
C25_Witness ==
    \E p \in Procs : \E i, j \in DOMAIN twap_metadata :
        /\ pc[p] # "idle"
        /\ HasListed(cur[p])
        /\ twap_metadata[i].status = "success"
        /\ twap_metadata[j].status = "failed"
        /\ twap_metadata[i].last_ingestion_date < twap_metadata[j].last_ingestion_date
        /\ runlog[cur[p]].last_fetch_date = <<twap_metadata[i].last_ingestion_date>>
        /\ \E o \in bucket :
              /\ o.last_modified >= twap_metadata[i].last_ingestion_date
              /\ o.last_modified < twap_metadata[j].last_ingestion_date
              /\ o.block \in Range(runlog[cur[p]].listed)

\* the place in rows of the first row with the key of row x
FirstIndex(rows, x) ==
    CHOOSE i \in DOMAIN rows :
        SameKey(rows[i], x) /\ \A j \in 1..(i - 1) : ~SameKey(rows[j], x)

\* C26: the deduplication of a batch that holds no five-field key twice is
\* the batch itself, the deduplication of its own output is that output, and
\* the output holds, for each key of the input, the first row of the input
\* with that key, in the order these first rows have in the input.
C26_DedupFixedPoint ==
    call.op = "drop_duplicates" =>
        LET I == call.args
            O == call.ret
        IN  /\ (\A i, j \in DOMAIN I : i # j => ~SameKey(I[i], I[j])) => O = I
            /\ drop_duplicates(O) = O
            /\ \A i \in DOMAIN I : \E k \in DOMAIN O : SameKey(O[k], I[i])
            /\ \A k \in DOMAIN O :
                  /\ \E i \in DOMAIN I : SameKey(I[i], O[k])
                  /\ O[k] = I[FirstIndex(I, O[k])]
            /\ \A j, k \in DOMAIN O :
                  j < k => FirstIndex(I, O[j]) < FirstIndex(I, O[k])

\* the third record repeats the key of the first and differs from it: the
\* output is the first and the second record, in that order
C26_Witness ==
    /\ call.op = "drop_duplicates"
    /\ Len(call.args) = 3
    /\ SameKey(call.args[1], call.args[3])
    /\ call.args[1] # call.args[3]
    /\ ~SameKey(call.args[1], call.args[2])
    /\ call.ret = <<call.args[1], call.args[2]>>

\* run r is recorded success by this step
TurnsSuccess(r) ==
    /\ runlog'[r].outcome = "success"
    /\ r \in DOMAIN runlog => runlog[r].outcome # "success"

\* C27: no step changes or removes a stored trade, and the step that records
\* a pass success appends every row of its deduplicated batch after the
\* stored rows, whether or not a stored row has the same five-field key.
C27_InsertIgnoresStoredRows ==
    [][/\ Len(trades') >= Len(trades)
       /\ \A i \in DOMAIN trades : trades'[i] = trades[i]
       /\ \A r \in DOMAIN runlog' :
             TurnsSuccess(r) =>
                 LET B == drop_duplicates(runlog'[r].batch)
                 IN  /\ Len(trades') = Len(trades) + Len(B)
                     /\ \A k \in DOMAIN B :
                           trades'[Len(trades) + k] = [row |-> B[k], run |-> r]]_vars

\* two stored trades of different passes have the same five-field key
C27_Witness ==
    \E i, j \in DOMAIN trades :
        /\ i < j
        /\ trades[i].run < trades[j].run
        /\ SameKey(trades[i].row, trades[j].row)

\* the objects put while run r was between its listing and its success row:
\* within the range r listed from, not in a block r listed, and modified
\* before the date r recorded
PutDuring(r) ==
    {o \in bucket :
        /\ o.last_modified >= start_date_of(runlog[r].last_fetch_date)
        /\ o.block \notin Range(runlog[r].listed)
        /\ o.last_modified < SuccessDate(r)}

\* C28 as stated: once a pass is over, each object put between the listing
\* of a successful pass and the date it recorded has been listed by a later
\* pass or is listed by the next one.
C28_NoObjectLostToRace ==
    pc[1] = "idle" =>
        \A r \in Runs :
            runlog[r].outcome = "success" =>
                \A o \in PutDuring(r) :
                    EnumeratedAfter(r, o.block) \/ o.block \in Eligible

\* the sum of records_processed over the rows S of twap_metadata
RECURSIVE SumProcessed(_)
SumProcessed(S) ==
    IF S = {} THEN 0
    ELSE LET i == CHOOSE x \in S : TRUE
         IN  twap_metadata[i].records_processed + SumProcessed(S \ {i})

\* C29: in every state the committed trades are as many as the success rows'
\* records_processed add up to; a failed row has records_processed 0; a
\* success row is the row of a pass whose save_to_db returned its
\* records_processed, the number of trades that pass stored.
C29_TradeCountMatchesMetadata ==
    /\ Len(trades) = SumProcessed(SuccessRows)
    /\ \A i \in DOMAIN twap_metadata :
          /\ twap_metadata[i].status = "failed" =>
                twap_metadata[i].records_processed = 0
          /\ twap_metadata[i].status = "success" =>
                LET r == twap_metadata[i].run
                IN  /\ runlog[r].outcome = "success"
                    /\ runlog[r].returned = twap_metadata[i].records_processed
                    /\ Cardinality(TradesOfRun(r)) = twap_metadata[i].records_processed

\* two passes that ran together: one stored its trades under a success row,
\* the other failed in save_to_db and left a failed row
C29_Witness ==
    \E i, j \in DOMAIN twap_metadata :
        /\ twap_metadata[i].status = "success"
        /\ twap_metadata[i].records_processed > 0
        /\ twap_metadata[j].status = "failed"
        /\ twap_metadata[j].run \in runlog[twap_metadata[i].run].conc
                \/ twap_metadata[i].run \in runlog[twap_metadata[j].run].conc
        /\ Len(trades) = twap_metadata[i].records_processed
====
